---- MODULE Spec2Model ----
(***************************************************************************)
(* A model of MrMustard.  The optimizer driver: the collection of the      *)
(* trainable parameters of a list of circuit elements                      *)
(* (TrainPlugin.extract_parameters, TFOptimizerBackend._all_*_parameters), *)
(* the optimizer step (loss and gradients, then the symplectic, the        *)
(* orthogonal and the euclidean update), and the creation and the bounded  *)
(* update of a euclidean parameter (TFMathbackend.make_euclidean_parameter)*)
(* The Fock side: the recursion engine (TFCircuitBackend._recursive_state), *)
(* the Gaussian-to-generating-function mapper (_Sigma_mu_C), the sampling  *)
(* of a symplectic parameter (make_symplectic_parameter) and the Fock      *)
(* representation a State object hands out (State.fock, ket, dm,           *)
(* fock_probabilities), for states in Gaussian and in Fock representation. *)
(* The backend's sandwich, thermal_X and thermal_Y, the purity of a State  *)
(* and of a Gaussian (is_pure, is_mixed), and the projection of a state    *)
(* onto a state (State.modes, State.__call__).                             *)
(***************************************************************************)
EXTENDS Integers, Sequences, FiniteSets, TLC

\* ------------------------------------------------------------------ bounds
\* Number of parameter storages (tf.Variable objects) that exist.
MaxParams == 2
\* Total number of parameter references held by the circuit elements.
MaxRefs == 2
\* Number of optimizer steps of one run.
MaxSteps == 2
\* Largest magnitude a euclidean parameter's value takes.
MaxValue == 3
\* Largest length of B (the size of A) and of the cutoffs list.
MaxAxes == 2
\* Largest cutoff of one axis.
MaxCutoff == 3
\* Largest number of modes of a Gaussian state.
MaxModes == 2

\* ------------------------------------------------------------- the universe
Storage == 1..MaxParams
Kinds == {"symplectic", "orthogonal", "euclidean"}
\* Python's None.
None == "None"
\* The values a storage holds before the first step (two storages may hold
\* equal values).
InitValues == {0, 1}

VARIABLES
    \* the circuit elements: a sequence of items, each the sequence of the
    \* parameter storages the item references, in the item's own order
    items,
    \* kindOf[p]: the declared kind of storage p
    kindOf,
    \* hashOf[p]: what hash_tensor(p) returns; 0 when it raises TypeError
    hashOf,
    \* value[p]: the tensor value storage p holds
    value,
    \* params[kind]: the list TrainPlugin.extract_parameters(items, kind) returned
    params,
    \* symp, eucl: the lists TFOptimizerBackend._all_symplectic_parameters and
    \* _all_euclidean_parameters returned
    symp, eucl,
    \* the position of the driver
    pc,
    \* grads[p]: the gradient of the loss w.r.t. p held by the step (None: no gradient)
    grads,
    \* pre[p]: the value p held when the current step began
    pre,
    \* writes[p]: the number of assignments into p during the current step
    writes,
    \* writers[p]: the update rules that assigned into p during the current step
    writers,
    \* the call that raised, when pc = "failed"
    failedIn,
    \* the number of completed steps
    steps,
    \* the value the last call returned
    ret,
    \* the (lo, hi) bounds make_euclidean_parameter was called with
    ebounds,
    \* the constraint the created euclidean variable carries: None or <<lo, hi>>
    econstraint,
    \* the value of the created euclidean variable
    evalue,
    \* the number of euclidean updates applied to the created variable
    eupdates,
    \* the arguments of _recursive_state: A a sequence of rows, B a sequence,
    \* C a number, cutoffs a sequence of integers
    A, B, C, cutoffs,
    \* the position of the recursion engine
    epc,
    \* the local `mixed` of _recursive_state: <<>> before it is computed
    mixed,
    \* whether np.zeros has returned the tensor, and the shape it was given
    allocated, tshape,
    \* the tensor `state`: a function from the multi-indices to the entries
    state,
    \* the multi-indices written so far, the number of entries the fill wrote,
    \* and the multi-indices the fill read before they were written
    written, nfilled, badReads,
    \* the error the engine raised (None: none)
    eraised,
    \* the sensitivity tensors dA and dB of grad(dy) (<<>> before the backward
    \* pass) and the number of their entries fill_gradients filled
    dA, dB, gfilled,
    \* what grad(dy) returned, with its dy and dC: <<>> before it returns
    grad,
    \* the arguments of _Sigma_mu_C: the means vector and the flag `mixed`;
    \* of the covariance matrix, the kind of matrix sigma_Q(cov, hbar) is
    means, mixed_arg, sQ,
    \* the position of the mapper, the triple it returned (<<>>: none) and
    \* the error it raised (None: none)
    mpc, mret, mraised,
    \* the arguments of make_symplectic_parameter (symp_init_value its
    \* init_value: <<>> for None)
    num_modes, symp_init_value, trainable,
    \* its locals W, V, r (<<>> before they are sampled) and val
    W, V, r, val,
    \* what it returned: None before the call, then "Variable" or "constant"
    made,
    \* a State object: the value its cov and means have now, its
    \* number of modes, whether it is pure
    cov, state_modes, is_pure_state,
    \* whether it is in Gaussian representation (built from cov and means)
    \* or in Fock representation only (built from a ket or a dm)
    is_gaussian,
    \* its memoized attributes (<<>>: None)
    _fock, _fock_probabilities, _purity,
    \* the last read of its Fock representation: the call, its cutoffs
    \* argument, what it returned (<<>>: None), the error it raised and the
    \* value cov had then
    read,
    \* the arguments of TFMathbackend.sandwich: bread (<<>>: None) and filling
    \* sequences of rows, modes a sequence of mode numbers counted from 0
    bread, filling, modes,
    \* what sandwich returned (<<>>: not called yet)
    sret,
    \* the last call of thermal_X / thermal_Y: the method, its arguments, the
    \* error it raised (None: none) and what it returned (<<>>: nothing)
    tcall,
    \* the number of calls of thermal_X and thermal_Y made so far
    tcalls,
    \* the class of a state object whose purity is read ("State" or
    \* "Gaussian") and the symplectic eigenvalues it has now; for this object
    \* _purity holds the purity as a fraction
    klass, eigenvalues,
    \* what the last read of is_mixed and is_pure returned (<<>>: no read yet)
    pread,
    \* a projection self(other): the numbers of modes of other and of self
    onum, pnum,
    \* whether self was built with explicit modes, its attribute _modes
    \* (<<>>: None) and whether its property modes has been read
    explicit_modes, _modes, modes_read,
    \* whether the class of self defines _preferred_projection, and whether
    \* self and other are both in Gaussian representation
    defines_pp, gaussians,
    \* self.cutoffs and other.cutoffs
    own_cutoffs, others_cutoffs,
    \* the position of the call, what it computed (<<>>: nothing) and the
    \* error it raised (None: none)
    ppc, pret, praised

inputVars == <<items, kindOf, hashOf>>
collectVars == <<params, symp, eucl>>
stepVars == <<grads, pre, writes, writers, failedIn, steps, ret>>
boundVars == <<ebounds, econstraint, evalue, eupdates>>
driverVars == <<inputVars, value, collectVars, pc, stepVars, boundVars>>
engineVars == <<A, B, C, cutoffs, epc, mixed, allocated, tshape, state, written,
                nfilled, badReads, eraised, dA, dB, gfilled, grad>>
mapperVars == <<means, mixed_arg, sQ, mpc, mret, mraised>>
samplingVars == <<num_modes, symp_init_value, trainable, W, V, r, val, made>>
stateVars == <<cov, state_modes, is_pure_state, is_gaussian, _fock, _fock_probabilities,
               _purity, read>>
fockVars == <<engineVars, mapperVars, samplingVars, stateVars>>
backendVars == <<bread, filling, modes, sret, tcall, tcalls>>
purityVars == <<klass, eigenvalues, pread>>
projectVars == <<onum, pnum, explicit_modes, _modes, modes_read, defines_pp, gaussians,
                 own_cutoffs, others_cutoffs, ppc, pret, praised>>
labVars == <<backendVars, purityVars, projectVars>>
vars == <<driverVars, fockVars, labVars>>

\* ------------------------------------------------------------ sequences
Range(s) == {s[i] : i \in DOMAIN s}

Count(s, x) == Cardinality({i \in DOMAIN s : s[i] = x})

RECURSIVE SumLen(_)
SumLen(ss) == IF ss = <<>> THEN 0 ELSE Len(Head(ss)) + SumLen(Tail(ss))

\* The sequences over S of length 1..n.
SeqsUpTo(S, n) == UNION {[1..k -> S] : k \in 1..n}

\* The lists of circuit elements: every element references at least one
\* storage, and the elements hold at most MaxRefs references in all.
ItemLists ==
    {its \in UNION {[1..n -> SeqsUpTo(Storage, MaxRefs)] : n \in 0..MaxRefs} :
        SumLen(its) <= MaxRefs}

\* ------------------------------------------------- the circuit elements
\* item.trainable_parameters[kind]: the item's parameters of the declared kind,
\* in the item's order.
TrainableParameters(item, kind) == SelectSeq(item, LAMBDA p : kindOf[p] = kind)

\* backend.hash_tensor(p): the dedup key of p, an integer.  RaisesTypeError(p)
\* says that the call raises TypeError instead (p cannot be hashed).
RaisesTypeError(p) == hashOf[p] = 0
hash_tensor(p) == hashOf[p]

\* ------------------------------------------- TrainPlugin.extract_parameters
\* params_dict is a Python dict: a sequence of <<key, value>> pairs in
\* insertion order.
HasKey(d, k) == \E i \in DOMAIN d : d[i][1] = k
DictValues(d) == [i \in DOMAIN d |-> d[i][2]]

\* The inner loop over one item's parameters from position i on: a TypeError
\* of hash_tensor leaves the loop (except TypeError: continue).
RECURSIVE ScanItem(_, _, _)
ScanItem(ps, i, d) ==
    IF i > Len(ps) THEN d
    ELSE IF RaisesTypeError(ps[i]) THEN d
    ELSE LET h == hash_tensor(ps[i]) IN
         IF HasKey(d, h) THEN ScanItem(ps, i + 1, d)
         ELSE ScanItem(ps, i + 1, Append(d, <<h, ps[i]>>))

RECURSIVE ScanItems(_, _, _, _)
ScanItems(its, j, kind, d) ==
    IF j > Len(its) THEN d
    ELSE ScanItems(its, j + 1, kind, ScanItem(TrainableParameters(its[j], kind), 1, d))

\* The same loops without the membership test.
RECURSIVE ScanItemNoDedup(_, _, _)
ScanItemNoDedup(ps, i, d) ==
    IF i > Len(ps) THEN d
    ELSE IF RaisesTypeError(ps[i]) THEN d
    ELSE ScanItemNoDedup(ps, i + 1, Append(d, <<hash_tensor(ps[i]), ps[i]>>))

RECURSIVE ScanItemsNoDedup(_, _, _, _)
ScanItemsNoDedup(its, j, kind, d) ==
    IF j > Len(its) THEN d
    ELSE ScanItemsNoDedup(its, j + 1, kind,
                          ScanItemNoDedup(TrainableParameters(its[j], kind), 1, d))

extract_parameters_nodedup(its, kind) == DictValues(ScanItemsNoDedup(its, 1, kind, <<>>))

\* The same loops reading every parameter of the item, of whatever kind.
RECURSIVE ScanItemsAnyKind(_, _, _, _)
ScanItemsAnyKind(its, j, kind, d) ==
    IF j > Len(its) THEN d
    ELSE ScanItemsAnyKind(its, j + 1, kind, ScanItem(its[j], 1, d))

extract_parameters_anykind(its, kind) == DictValues(ScanItemsAnyKind(its, 1, kind, <<>>))

extract_parameters(its, kind) == DictValues(ScanItems(its, 1, kind, <<>>))

\* ------------------------- TFOptimizerBackend._all_symplectic_parameters
\* symp holds references (s.ref()); two references are equal exactly when
\* they refer to the same variable, so the list is one of storages.
RECURSIVE AllRefsItem(_, _, _)
AllRefsItem(ps, i, acc) ==
    IF i > Len(ps) THEN acc
    ELSE IF ps[i] \in Range(acc) THEN AllRefsItem(ps, i + 1, acc)
    ELSE AllRefsItem(ps, i + 1, Append(acc, ps[i]))

RECURSIVE AllRefs(_, _, _, _)
AllRefs(circuits, j, kind, acc) ==
    IF j > Len(circuits) THEN acc
    ELSE AllRefs(circuits, j + 1, kind,
                 AllRefsItem(TrainableParameters(circuits[j], kind), 1, acc))

all_symplectic_parameters(circuits) == AllRefs(circuits, 1, "symplectic", <<>>)
all_euclidean_parameters(circuits) == AllRefs(circuits, 1, "euclidean", <<>>)

\* ------------------------------------------------------------ idle parts
CollectIdle == params = [k \in Kinds |-> <<>>] /\ symp = <<>> /\ eucl = <<>>

StepIdle ==
    /\ grads = [p \in Storage |-> <<>>]
    /\ pre = value
    /\ writes = [p \in Storage |-> 0]
    /\ writers = [p \in Storage |-> {}]
    /\ failedIn = None
    /\ steps = 0
    /\ ret = None

BoundIdle ==
    /\ ebounds = <<<<"None", 0>>, <<"None", 0>>>>
    /\ econstraint = <<>>
    /\ evalue = 0
    /\ eupdates = 0

\* The recursion engine before a call, with the arguments of some call.
EngineIdle ==
    /\ A = <<<<<<1, 0>>>>>>
    /\ B = <<<<1, 0>>>>
    /\ C = <<1, 0>>
    /\ cutoffs = <<1>>
    /\ epc = "init"
    /\ mixed = <<>>
    /\ allocated = FALSE
    /\ tshape = <<>>
    /\ state = <<>>
    /\ written = {}
    /\ nfilled = 0
    /\ badReads = {}
    /\ eraised = None
    /\ dA = <<>>
    /\ dB = <<>>
    /\ gfilled = 0
    /\ grad = <<>>

\* The mapper before a call, with the arguments of some call.
MapperIdle ==
    /\ means = <<0, 0>>
    /\ mixed_arg = FALSE
    /\ sQ = "posdef"
    /\ mpc = "init"
    /\ mret = <<>>
    /\ mraised = None

\* make_symplectic_parameter before a call.
SamplingIdle ==
    /\ num_modes = 1
    /\ symp_init_value = <<>>
    /\ trainable = TRUE
    /\ W = <<>>
    /\ V = <<>>
    /\ r = <<>>
    /\ val = <<>>
    /\ made = None

\* A State object nobody has read.
StateIdle ==
    /\ cov = 0
    /\ state_modes = 1
    /\ is_pure_state = TRUE
    /\ is_gaussian = TRUE
    /\ _fock = <<>>
    /\ _fock_probabilities = <<>>
    /\ _purity = <<>>
    /\ read = [op |-> "none", arg |-> <<>>, result |-> <<>>, raised |-> None, cov |-> 0]

FockIdle == EngineIdle /\ MapperIdle /\ SamplingIdle /\ StateIdle

\* The backend before a call of sandwich, thermal_X or thermal_Y.
BackendIdle ==
    /\ bread = <<>>
    /\ filling = <<<<1, 0>>, <<0, 1>>>>
    /\ modes = <<0>>
    /\ sret = <<>>
    /\ tcall = [op |-> "none", nbar |-> 0, hbar |-> 0, raised |-> None, returned |-> <<>>]
    /\ tcalls = 0

\* A state object whose purity nobody reads.
PurityIdle ==
    /\ klass = "State"
    /\ eigenvalues = <<0>>
    /\ pread = <<>>

\* No projection under way.
ProjectIdle ==
    /\ onum = 1
    /\ pnum = 1
    /\ explicit_modes = FALSE
    /\ _modes = <<>>
    /\ modes_read = FALSE
    /\ defines_pp = FALSE
    /\ gaussians = TRUE
    /\ own_cutoffs = <<1>>
    /\ others_cutoffs = <<1>>
    /\ ppc = "init"
    /\ pret = <<>>
    /\ praised = None

LabIdle == BackendIdle /\ PurityIdle /\ ProjectIdle

\* The optimizer driver with nothing to optimize.
DriverIdle ==
    /\ items = <<>>
    /\ kindOf = [p \in Storage |-> "euclidean"]
    /\ hashOf = [p \in Storage |-> p]
    /\ value = [p \in Storage |-> 0]
    /\ pc = "init"
    /\ CollectIdle
    /\ StepIdle
    /\ BoundIdle

\* ------------------------------------------------ collecting parameters
\* The inputs of a collection: any list of circuit elements over storages of
\* any declared kinds.  A storage's hash is its own key or, when hashes
\* collide, the key of an earlier storage; 0 marks a tensor hash_tensor
\* cannot hash.
InitExtract ==
    /\ items \in ItemLists
    /\ kindOf \in [Storage -> Kinds]
    /\ hashOf \in {h \in [Storage -> 0..MaxParams] : \A p \in Storage : h[p] <= p}
    /\ value \in [Storage -> InitValues]
    /\ pc = "init"
    /\ CollectIdle
    /\ StepIdle
    /\ BoundIdle
    /\ FockIdle
    /\ LabIdle

\* The driver collects the parameters of every kind.
ExtractParameters ==
    /\ pc = "init"
    /\ params' = [k \in Kinds |-> extract_parameters(items, k)]
    /\ symp' = all_symplectic_parameters(items)
    /\ eucl' = all_euclidean_parameters(items)
    /\ pc' = "extracted"
    /\ UNCHANGED <<labVars, fockVars, inputVars, value, stepVars, boundVars>>

NextExtract == ExtractParameters

SpecExtract == InitExtract /\ [][NextExtract]_vars

\* ------------------------------------------------------ the optimizer step
\* The gradients tape.gradient returns: <<g>> for a parameter the loss depends
\* on, NoGrad (Python's None) for one it does not depend on.
NoGrad == <<>>
Grads == {<<-1>>, <<1>>}

\* The learning rates (symplectic_lr, orthogonal_lr, euclidean_lr).
LearningRate == [k \in Kinds |-> 1]

\* The storages the collected lists hold.
Listed == UNION {Range(params[k]) : k \in Kinds}

\* An assignment that lands in the storage next to S.
assign_neighbour(vals, S, new_value) == [vals EXCEPT ![(S % MaxParams) + 1] = new_value]

\* backend.assign(S, new_value): the new value goes into the storage of S.
assign(vals, S, new_value) == [vals EXCEPT ![S] = new_value]

\* S . expm(-lr Y^T) . expm(-lr (Y - Y^T)), Y from S and dS: the tensor algebra
\* is abstracted to one number per storage, moved against the gradient.
SymplecticRetraction(S, dS, lr) == S - lr * dS

\* O . expm(lr D^T O), D from O and dO.
OrthogonalRetraction(O, dO, lr) == O - lr * dO

\* One euclidean (Adam) move of a variable.
EuclideanMove(x, g, lr) == x - lr * g

\* What an update has done so far: the values, the assignments per storage,
\* the rules that assigned, and whether the update raised.
Outcome(vals) == [val |-> vals, wr |-> writes, ws |-> writers, raised |-> FALSE]

Written(st, S, rule, new_value) ==
    [st EXCEPT !.val = assign(@, S, new_value),
               !.wr[S] = @ + 1,
               !.ws[S] = @ \cup {rule}]

\* TrainPlugin.update_symplectic from position k of zip(params, grads) on: a
\* gradient of None makes riemann_to_symplectic raise, which ends the loop
\* with the assignments made so far in place.
RECURSIVE update_symplectic(_, _, _, _, _)
update_symplectic(symplectic_params, symplectic_grads, symplectic_lr, k, st) ==
    IF k > Len(symplectic_params) THEN st
    ELSE LET S == symplectic_params[k]
             dS_riemann == symplectic_grads[S] IN
         IF dS_riemann = NoGrad THEN [st EXCEPT !.raised = TRUE]
         ELSE update_symplectic(symplectic_params, symplectic_grads, symplectic_lr, k + 1,
                  Written(st, S, "symplectic",
                          SymplecticRetraction(st.val[S], dS_riemann[1], symplectic_lr)))

\* TrainPlugin.update_orthogonal, likewise.
RECURSIVE update_orthogonal(_, _, _, _, _)
update_orthogonal(orthogonal_params, orthogonal_grads, orthogonal_lr, k, st) ==
    IF k > Len(orthogonal_params) THEN st
    ELSE LET O == orthogonal_params[k]
             dO_riemann == orthogonal_grads[O] IN
         IF dO_riemann = NoGrad THEN [st EXCEPT !.raised = TRUE]
         ELSE update_orthogonal(orthogonal_params, orthogonal_grads, orthogonal_lr, k + 1,
                  Written(st, O, "orthogonal",
                          OrthogonalRetraction(st.val[O], dO_riemann[1], orthogonal_lr)))

\* TrainPlugin.update_euclidean: apply_gradients leaves out the pairs whose
\* gradient is None and raises ValueError, before any assignment, when the
\* pairs are not empty and none has a gradient.
RECURSIVE ApplyGradients(_, _, _, _, _)
ApplyGradients(euclidean_params, euclidean_grads, euclidean_lr, k, st) ==
    IF k > Len(euclidean_params) THEN st
    ELSE LET e == euclidean_params[k]
             g == euclidean_grads[e]
             rest(s) == ApplyGradients(euclidean_params, euclidean_grads, euclidean_lr, k + 1, s) IN
         IF g = NoGrad THEN rest(st)
         ELSE rest(Written(st, e, "euclidean", EuclideanMove(st.val[e], g[1], euclidean_lr)))

update_euclidean(euclidean_params, euclidean_grads, euclidean_lr, st) ==
    IF euclidean_params # <<>> /\ \A e \in Range(euclidean_params) : euclidean_grads[e] = NoGrad
    THEN [st EXCEPT !.raised = TRUE]
    ELSE ApplyGradients(euclidean_params, euclidean_grads, euclidean_lr, 1, st)

\* The inputs of an optimization: circuit elements over storages of any
\* declared kinds, every storage hashable with a key of its own.
InitStep ==
    /\ items \in ItemLists
    /\ kindOf \in [Storage -> Kinds]
    /\ hashOf = [p \in Storage |-> p]
    /\ value = [p \in Storage |-> 0]
    /\ pc = "init"
    /\ CollectIdle
    /\ StepIdle
    /\ BoundIdle
    /\ FockIdle
    /\ LabIdle

\* A loss evaluation that has moved the collected parameters when the loss
\* function raises.
loss_and_gradients_raises_dirty ==
    /\ pc = "extracted"
    /\ steps < MaxSteps
    /\ pre' = value
    /\ value' = [p \in Storage |-> IF p \in Listed THEN value[p] + 1 ELSE value[p]]
    /\ writes' = [p \in Storage |-> 0]
    /\ writers' = [p \in Storage |-> {}]
    /\ pc' = "failed"
    /\ failedIn' = "loss"
    /\ UNCHANGED <<labVars, fockVars, inputVars, collectVars, grads, steps, ret, boundVars>>

\* A step begins: loss_and_gradients evaluates the loss under the tape and
\* returns the loss with the gradients of every collected parameter; a loss
\* function that raises ends the step.  No storage is assigned.
loss_and_gradients_raises ==
    /\ pc = "extracted"
    /\ steps < MaxSteps
    /\ pre' = value
    /\ writes' = [p \in Storage |-> 0]
    /\ writers' = [p \in Storage |-> {}]
    /\ pc' = "failed"
    /\ failedIn' = "loss"
    /\ UNCHANGED <<labVars, fockVars, inputVars, value, collectVars, grads, steps, ret, boundVars>>

loss_and_gradients ==
    /\ pc = "extracted"
    /\ steps < MaxSteps
    /\ pre' = value
    /\ writes' = [p \in Storage |-> 0]
    /\ writers' = [p \in Storage |-> {}]
    /\ grads' \in {g \in [Storage -> Grads \cup {NoGrad}] :
                      \A p \in Storage \ Listed : g[p] = NoGrad}
    /\ ret' = "loss, grads"
    /\ pc' = "symplectic"
    /\ UNCHANGED <<labVars, fockVars, inputVars, value, collectVars, failedIn, steps, boundVars>>

\* The outcome of an update goes into the state; an update that raised ends
\* the step, otherwise the driver moves on to the next call.
Finish(st, rule, next) ==
    /\ value' = st.val
    /\ writes' = st.wr
    /\ writers' = st.ws
    /\ IF st.raised
       THEN pc' = "failed" /\ failedIn' = rule /\ UNCHANGED <<ret, steps>>
       ELSE /\ pc' = next
            /\ ret' = None
            /\ steps' = IF next = "extracted" THEN steps + 1 ELSE steps
            /\ UNCHANGED failedIn
    /\ UNCHANGED <<labVars, fockVars, inputVars, collectVars, grads, pre, boundVars>>

UpdateSymplectic ==
    /\ pc = "symplectic"
    /\ Finish(update_symplectic(params["symplectic"], grads, LearningRate["symplectic"],
                                1, Outcome(value)),
              "symplectic", "orthogonal")

UpdateOrthogonal ==
    /\ pc = "orthogonal"
    /\ Finish(update_orthogonal(params["orthogonal"], grads, LearningRate["orthogonal"],
                                1, Outcome(value)),
              "orthogonal", "euclidean")

UpdateEuclidean ==
    /\ pc = "euclidean"
    /\ Finish(update_euclidean(params["euclidean"], grads, LearningRate["euclidean"],
                               Outcome(value)),
              "euclidean", "extracted")

Next ==
    \/ ExtractParameters
    \/ loss_and_gradients_raises
    \/ loss_and_gradients
    \/ UpdateSymplectic
    \/ UpdateOrthogonal
    \/ UpdateEuclidean

Spec == InitStep /\ [][Next]_vars

\* ------------------------------- TFMathbackend.make_euclidean_parameter
\* A bound as the caller gives it: Python's None or a number.
NoBound == <<"None", 0>>
Num(b) == <<"num", b>>
NegInf == <<"-inf", 0>>
PosInf == <<"inf", 0>>
BoundValues == {-1, 0, 1}
BoundChoices ==
    {b \in ({NoBound} \cup {Num(x) : x \in BoundValues})
           \X ({NoBound} \cup {Num(x) : x \in BoundValues}) :
        (b[1] # NoBound /\ b[2] # NoBound) => b[1][2] <= b[2][2]}

\* Python's truth value of a bound: None and 0 are false.
Truthy(x) == x # NoBound /\ x # Num(0)

\* bounds = (bounds[0] or -np.inf, bounds[1] or np.inf)
EffectiveBounds(bounds) ==
    <<IF Truthy(bounds[1]) THEN bounds[1] ELSE NegInf,
      IF Truthy(bounds[2]) THEN bounds[2] ELSE PosInf>>

\* The constraint of the variable: None unless a bound is in effect.
NoConstraint == <<>>
Constraint(bounds) ==
    IF EffectiveBounds(bounds) = <<NegInf, PosInf>> THEN NoConstraint
    ELSE EffectiveBounds(bounds)

\* tf.clip_by_value(x, lo, hi) = min(max(x, lo), hi)
clip_by_value(x, lo, hi) ==
    LET raised == IF lo[1] = "num" /\ lo[2] > x THEN lo[2] ELSE x
    IN  IF hi[1] = "num" /\ hi[2] < raised THEN hi[2] ELSE raised

\* The optimizer applies the variable's constraint after its move.
Constrained(x, constraint) ==
    IF constraint = NoConstraint THEN x ELSE clip_by_value(x, constraint[1], constraint[2])

InitBounds ==
    /\ items = <<>>
    /\ kindOf = [p \in Storage |-> "euclidean"]
    /\ hashOf = [p \in Storage |-> p]
    /\ value = [p \in Storage |-> 0]
    /\ pc = "init"
    /\ CollectIdle
    /\ StepIdle
    /\ BoundIdle
    /\ FockIdle
    /\ LabIdle

\* make_euclidean_parameter(init_value, trainable = True, bounds)
make_euclidean_parameter ==
    /\ pc = "init"
    /\ \E bounds \in BoundChoices, init_value \in (-MaxValue)..MaxValue :
          /\ ebounds' = bounds
          /\ econstraint' = Constraint(bounds)
          /\ evalue' = init_value
    /\ eupdates' = 0
    /\ pc' = "created"
    /\ UNCHANGED <<labVars, fockVars, inputVars, value, collectVars, stepVars>>

\* One euclidean update of the variable: the optimizer's move, then the
\* variable's constraint.
EuclideanStep ==
    /\ pc = "created"
    /\ \E g \in Grads :
          LET new_value == Constrained(EuclideanMove(evalue, g[1], LearningRate["euclidean"]),
                                       econstraint) IN
          /\ new_value \in (-MaxValue)..MaxValue
          /\ evalue' = new_value
    /\ eupdates' = IF eupdates < MaxSteps THEN eupdates + 1 ELSE eupdates
    /\ UNCHANGED <<labVars, fockVars, inputVars, value, collectVars, pc, stepVars, ebounds, econstraint>>

NextBounds == make_euclidean_parameter \/ EuclideanStep

SpecBounds == InitBounds /\ [][NextBounds]_vars

\* ------------------------------------------------------------ properties
\* Storage p is referenced, as a parameter of the given kind, by some element.
Referenced(p, kind) ==
    kindOf[p] = kind /\ \E j \in DOMAIN items : p \in Range(items[j])

\* The number of references the elements hold to p.
RECURSIVE References(_, _)
References(its, p) ==
    IF its = <<>> THEN 0 ELSE Count(Head(its), p) + References(Tail(its), p)

\* The elements with every storage registered once only: each reference to
\* a storage after its first is taken out.
RECURSIVE RegisteredOnce(_, _)
RegisteredOnce(its, seen) ==
    IF its = <<>> THEN <<>>
    ELSE <<AllRefsItem(SelectSeq(Head(its), LAMBDA p : p \notin seen), 1, <<>>)>>
         \o RegisteredOnce(Tail(its), seen \cup Range(Head(its)))

\* C1: the list collected for a kind holds every storage that the elements
\* reference under that kind exactly once, however often it is referenced,
\* and equals the list collected when every storage is registered once only.
C1_CollectedExactlyOnce ==
    pc = "extracted" =>
        /\ \A k \in Kinds, p \in Storage :
              (Referenced(p, k) /\ ~RaisesTypeError(p)) => Count(params[k], p) = 1
        /\ \A p \in Storage : Referenced(p, "symplectic") => Count(symp, p) = 1
        /\ \A p \in Storage : Referenced(p, "euclidean") => Count(eucl, p) = 1
        /\ \A k \in Kinds : params[k] = extract_parameters(RegisteredOnce(items, {}), k)

C3_LossRaiseMutatesNothing ==
    /\ (pc = "failed" /\ failedIn = "loss") =>
          (value = pre /\ \A p \in Storage : writes[p] = 0)
    /\ (\E p \in Storage : writes[p] > 0 \/ value[p] # pre[p]) =>
          (pc \in {"orthogonal", "euclidean", "extracted", "failed"} /\ failedIn # "loss")

\* The loss raises in a step that follows a completed step, which had moved
\* a collected parameter.
C3_Witness ==
    /\ pc = "failed"
    /\ failedIn = "loss"
    /\ steps >= 1
    /\ \E p \in Listed : value[p] # 0

\* C4: a step that fails at any point leaves every storage with the value
\* it held when the step began.
C4_FailedStepLeavesAll == pc = "failed" => value = pre

\* C6: within one step every storage is assigned at most once, and by one
\* update rule only, that of its declared kind.
C6_SingleWriterPerStep ==
    \A p \in Storage :
        /\ writes[p] <= 1
        /\ Cardinality(writers[p]) <= 1
        /\ writes[p] = 1 => writers[p] = {kindOf[p]}

\* A step is complete in which a storage that two elements reference, or one
\* element twice, was assigned once.
C6_Witness ==
    /\ pc = "extracted"
    /\ steps >= 1
    /\ \E p \in Storage : References(items, p) >= 2 /\ writes[p] = 1

\* C8: the symplectic and the orthogonal update return None, leave the
\* parameter sequences made of the same storages, allocate no storage, and
\* leave the value of every storage outside the sequence they were given.
C8_UpdateInPlace ==
    [][(pc \in {"symplectic", "orthogonal"}) =>
          /\ params' = params
          /\ DOMAIN value' = DOMAIN value
          /\ (pc' # "failed" => ret' = None)
          /\ \A p \in Storage \ Range(params[pc]) : value'[p] = value[p]]_vars

\* The symplectic update has assigned one storage while another storage,
\* not symplectic, keeps the value it had.
C8_Witness ==
    /\ pc = "orthogonal"
    /\ \E p, q \in Storage :
          /\ writes[p] = 1 /\ writers[p] = {"symplectic"} /\ value[p] # pre[p]
          /\ q \notin Range(params["symplectic"]) /\ value[q] = pre[q]

\* C7: after every euclidean update, the value of a parameter created with
\* bounds (lo, hi) is within every bound that was supplied, a bound of 0
\* included.
C7_ValueWithinBounds ==
    eupdates >= 1 =>
        /\ ebounds[1] # NoBound => ebounds[1][2] <= evalue
        /\ ebounds[2] # NoBound => evalue <= ebounds[2][2]

\* ------------------------------------------------- the recursion engine
\* Complex numbers are pairs <<re, im>> of integers (np.complex128 values
\* with integer parts).
CZero == <<0, 0>>
CAdd(z, w) == <<z[1] + w[1], z[2] + w[2]>>
CMul(z, w) == <<z[1] * w[1] - z[2] * w[2], z[1] * w[2] + z[2] * w[1]>>
CScale(n, z) == <<n * z[1], n * z[2]>>
conj(z) == <<z[1], -z[2]>>
\* z / w for a z that is a multiple of w
CDiv(z, w) ==
    LET q == CMul(z, conj(w))
        norm == w[1] * w[1] + w[2] * w[2]
    IN  <<q[1] \div norm, q[2] \div norm>>

RECURSIVE CSum(_)
CSum(zs) == IF zs = <<>> THEN CZero ELSE CAdd(Head(zs), CSum(Tail(zs)))

\* The arguments the engine is called with.  The entries of A and B are 1
\* or i; a matrix has its diagonal alternating between two entries, one
\* entry above and one below the diagonal (all the matrices up to 2 x 2,
\* symmetric and not, square and not); B and the cutoffs alternate between
\* two entries (all the lists up to length 2); a cutoff may be 0 or negative.
Amps == {<<1, 0>>, <<0, 1>>}
Alternate(i, a, b) == IF i % 2 = 1 THEN a ELSE b
Matrices ==
    {[i \in 1..rows |-> [j \in 1..cols |->
         IF i = j THEN Alternate(i, d1, d2) ELSE IF i < j THEN up ELSE lo]] :
       rows \in 1..MaxAxes, cols \in 1..MaxAxes,
       d1 \in Amps, d2 \in Amps, up \in Amps, lo \in Amps}
Vectors ==
    {[i \in 1..len |-> Alternate(i, b1, b2)] : len \in 1..MaxAxes, b1 \in Amps, b2 \in Amps}
Cs == {<<1, 0>>, <<0, 2>>}
CutoffLists ==
    {[i \in 1..len |-> Alternate(i, c1, c2)] :
       len \in 1..MaxAxes, c1 \in (-1)..MaxCutoff, c2 \in (-1)..MaxCutoff}

\* list + list * mixed
Doubled(cs, m) == IF m THEN cs \o cs ELSE cs
\* mixed = len(B) == 2*len(cutoffs)
IsMixed(b, cs) == Len(b) = 2 * Len(cs)
cutoffs_minus_1(cs, m) == Doubled([i \in DOMAIN cs |-> cs[i] - 1], m)
\* A state shape that forgets the second copy of the cutoffs.
StateShape_single(cs, m) == cs
\* tuple(cutoffs) + tuple(cutoffs)*mixed
StateShape(cs, m) == Doubled(cs, m)

\* The multi-indices of a tensor of the given shape (none when an axis has
\* size 0), the all-zero index and a tensor of zeros.
Indices(shape) ==
    {idx \in [1..Len(shape) -> 0..MaxCutoff] : \A i \in 1..Len(shape) : idx[i] < shape[i]}
Zero(shape) == [i \in 1..Len(shape) |-> 0]
zeros(shape) == [idx \in Indices(shape) |-> CZero]
RECURSIVE Size(_)
Size(shape) == IF shape = <<>> THEN 1 ELSE Head(shape) * Size(Tail(shape))

\* fill_amplitudes and fill_gradients (mrmustard._backends.utils).  They
\* are given max_photons = cutoffs_minus_1 and walk the multi-indices up to
\* it in nested ascending loops, the last axis innermost.
\*
\* The entry of the tensor at idx is stored multiplied by sqrt(idx!), idx!
\* the product of the factorials of the components of idx, and so are the
\* entries of dA, dB and dC; the entry of dy at idx is stored divided by it.
\* With tensor[idx] = u[idx] / sqrt(idx!) the recurrence
\*   tensor[idx] = (B[k] tensor[idx-e_k]
\*                  + sum_j A[k,j] sqrt(idx[j]') tensor[idx-e_k-e_j]) / sqrt(idx[k])
\* is, multiplied by sqrt((idx-e_k)!) sqrt(idx[k]) = sqrt(idx!),
\*   u[idx] = B[k] u[idx-e_k] + sum_j A[k,j] idx[j]' u[idx-e_k-e_j]
\* in integers, idx[j]' the component j of idx - e_k.
ShapeOf(max_photons) == [i \in DOMAIN max_photons |-> max_photons[i] + 1]

\* The multi-index of rank n in the order of the loops.
RECURSIVE Unrank(_, _)
Unrank(n, shape) ==
    IF shape = <<>> THEN <<>>
    ELSE Append(Unrank(n \div shape[Len(shape)], SubSeq(shape, 1, Len(shape) - 1)),
                n % shape[Len(shape)])
\* A walk from the last multi-index down to the first.
Visit_descending(n, shape) == Unrank(Size(shape) - n, shape)
\* The n-th multi-index the loops visit after the all-zero one.
Visit(n, shape) == Unrank(n, shape)

Dec(idx, k) == [idx EXCEPT ![k] = @ - 1]
\* The axis the recurrence advances to reach idx: its first non-zero one.
FillAxis(idx) == CHOOSE k \in 1..Len(idx) : idx[k] >= 1 /\ \A l \in 1..(k - 1) : idx[l] = 0
\* The entries the recurrence reads to compute the entry at idx.
Reads(idx, k) ==
    LET low == Dec(idx, k)
    IN  {low} \cup {Dec(low, j) : j \in {l \in 1..Len(idx) : low[l] >= 1}}
\* A recurrence that weighs the term of j by idx[j] instead of idx[j]'.
Amplitude_undecremented(t, a, b, idx, k) ==
    LET low == Dec(idx, k)
    IN  CAdd(CMul(b[k], t[low]),
             CSum([j \in 1..Len(idx) |->
                     IF low[j] >= 1 THEN CMul(CScale(idx[j], a[k][j]), t[Dec(low, j)])
                     ELSE CZero]))
\* The entry at idx from the entries below it, along axis k.
Amplitude(t, a, b, idx, k) ==
    LET low == Dec(idx, k)
    IN  CAdd(CMul(b[k], t[low]),
             CSum([j \in 1..Len(idx) |->
                     IF low[j] >= 1 THEN CMul(CScale(low[j], a[k][j]), t[Dec(low, j)])
                     ELSE CZero]))
\* The arguments fill_amplitudes takes: a square A, a B of its size, one
\* maximum per entry of B.
WellFormed(a, b, max_photons) ==
    /\ \A i \in DOMAIN a : Len(a[i]) = Len(a)
    /\ Len(b) = Len(a)
    /\ Len(max_photons) = Len(b)

\* np.zeros(shape + A.shape) with every sensitivity 1.
SeedA_ones(shape, a) ==
    [idx \in Indices(shape) |-> [i \in DOMAIN a |-> [j \in DOMAIN a[i] |-> <<1, 0>>]]]
\* dA = np.zeros(shape + A.shape), dB = np.zeros(shape + B.shape)
SeedA(shape, a) ==
    [idx \in Indices(shape) |-> [i \in DOMAIN a |-> [j \in DOMAIN a[i] |-> CZero]]]
SeedB(shape, b) == [idx \in Indices(shape) |-> [i \in DOMAIN b |-> CZero]]

\* The sensitivities of the entry at idx: the recurrence's own terms, and
\* its partial derivative w.r.t. A[i,j] and B[i].
SensA(da, t, a, b, idx, k) ==
    LET low == Dec(idx, k)
    IN  [i \in DOMAIN a |-> [j \in DOMAIN a[i] |->
          CAdd(CAdd(CMul(b[k], da[low][i][j]),
                    CSum([l \in 1..Len(idx) |->
                            IF low[l] >= 1
                            THEN CMul(CScale(low[l], a[k][l]), da[Dec(low, l)][i][j])
                            ELSE CZero])),
               IF i = k /\ low[j] >= 1 THEN CScale(low[j], t[Dec(low, j)]) ELSE CZero)]]
SensB(db, t, a, b, idx, k) ==
    LET low == Dec(idx, k)
    IN  [i \in DOMAIN b |->
          CAdd(CAdd(CMul(b[k], db[low][i]),
                    CSum([l \in 1..Len(idx) |->
                            IF low[l] >= 1
                            THEN CMul(CScale(low[l], a[k][l]), db[Dec(low, l)][i])
                            ELSE CZero])),
               IF i = k THEN t[low] ELSE CZero)]

\* The multi-indices of a tensor, in the order of their rank.
InOrder(shape) == [n \in 1..Size(shape) |-> Unrank(n - 1, shape)]

\* The upstream gradients: the constant tensors, and the one-hot tensors at
\* the first and at the last multi-index.
DyVals == {<<0, 0>>, <<1, 1>>, <<0, 1>>}
Upstream(shape) ==
    {[idx \in Indices(shape) |-> v] : v \in DyVals}
    \cup {[idx \in Indices(shape) |-> IF idx = hot THEN <<1, 0>> ELSE CZero] :
             hot \in {Zero(shape), Visit(Size(shape) - 1, shape)}}

\* What grad(dy) returns: dC = state / C and the sums (np.sum) over the
\* tensor's axes.
Backward(dy) ==
    LET dC == [idx \in Indices(tshape) |-> CDiv(state[idx], C)]
        order == InOrder(tshape)
    IN  [dy |-> dy,
         dC |-> dC,
         dLdA |-> [i \in DOMAIN A |-> [j \in DOMAIN A[i] |->
                     CSum([n \in DOMAIN order |->
                             CMul(dy[order[n]], conj(dA[order[n]][i][j]))])]],
         dLdB |-> [i \in DOMAIN B |->
                     CSum([n \in DOMAIN order |->
                             CMul(dy[order[n]], conj(dB[order[n]][i]))])],
         dLdC |-> CSum([n \in DOMAIN order |-> CMul(dy[order[n]], conj(dC[order[n]]))])]

InitEngine ==
    /\ DriverIdle
    /\ LabIdle
    /\ MapperIdle
    /\ SamplingIdle
    /\ StateIdle
    /\ A \in Matrices
    /\ B \in Vectors
    /\ C \in Cs
    /\ cutoffs \in CutoffLists
    /\ epc = "init"
    /\ mixed = <<>>
    /\ allocated = FALSE
    /\ tshape = <<>>
    /\ state = <<>>
    /\ written = {}
    /\ nfilled = 0
    /\ badReads = {}
    /\ eraised = None
    /\ dA = <<>>
    /\ dB = <<>>
    /\ gfilled = 0
    /\ grad = <<>>

\* _recursive_state up to the call of fill_amplitudes: mixed, cutoffs_minus_1,
\* np.zeros (ValueError on a negative dimension), the seed at the all-zero
\* index (IndexError when an axis has size 0).
recursive_state ==
    /\ epc = "init"
    /\ LET m == IsMixed(B, cutoffs)
           shape == StateShape(cutoffs, m)
       IN  /\ mixed' = <<m>>
           /\ IF \E i \in DOMAIN shape : shape[i] < 0
              THEN /\ eraised' = "ValueError"
                   /\ epc' = "raised"
                   /\ UNCHANGED <<allocated, tshape, state, written>>
              ELSE /\ allocated' = TRUE
                   /\ tshape' = shape
                   /\ IF \E i \in DOMAIN shape : shape[i] = 0
                      THEN /\ state' = zeros(shape)
                           /\ eraised' = "IndexError"
                           /\ epc' = "raised"
                           /\ UNCHANGED written
                      ELSE /\ state' = [zeros(shape) EXCEPT ![Zero(shape)] = C]
                           /\ written' = {Zero(shape)}
                           /\ epc' = "seeded"
                           /\ UNCHANGED eraised
    /\ UNCHANGED <<labVars, driverVars, mapperVars, samplingVars, stateVars, A, B, C, cutoffs, nfilled, badReads, dA, dB, gfilled, grad>>

\* The call of fill_amplitudes: its check of the arguments.
fill_amplitudes ==
    /\ epc = "seeded"
    /\ IF WellFormed(A, B, cutoffs_minus_1(cutoffs, mixed[1]))
       THEN epc' = "filling" /\ UNCHANGED eraised
       ELSE epc' = "raised" /\ eraised' = "InvalidArgument"
    /\ UNCHANGED <<labVars, driverVars, mapperVars, samplingVars, stateVars, A, B, C, cutoffs, mixed, allocated, tshape, state,
                   written, nfilled, badReads, dA, dB, gfilled, grad>>

\* One turn of the loops of fill_amplitudes: the next entry.
FillStep ==
    /\ epc = "filling"
    /\ LET shape == ShapeOf(cutoffs_minus_1(cutoffs, mixed[1]))
       IN  /\ nfilled + 1 < Size(shape)
           /\ LET idx == Visit(nfilled + 1, shape)
                  k == FillAxis(idx)
              IN  /\ state' = [state EXCEPT ![idx] = Amplitude(state, A, B, idx, k)]
                  /\ written' = written \cup {idx}
                  /\ badReads' = badReads \cup (Reads(idx, k) \ written)
    /\ nfilled' = nfilled + 1
    /\ UNCHANGED <<labVars, driverVars, mapperVars, samplingVars, stateVars, A, B, C, cutoffs, epc, mixed, allocated, tshape, eraised,
                   dA, dB, gfilled, grad>>

\* fill_amplitudes is through: _recursive_state returns state and grad.
Return ==
    /\ epc = "filling"
    /\ nfilled + 1 >= Size(ShapeOf(cutoffs_minus_1(cutoffs, mixed[1])))
    /\ epc' = "returned"
    /\ UNCHANGED <<labVars, driverVars, mapperVars, samplingVars, stateVars, A, B, C, cutoffs, mixed, allocated, tshape, state,
                   written, nfilled, badReads, eraised, dA, dB, gfilled, grad>>

\* The backward pass, grad(dy): dA and dB are allocated as zeros.
Grad ==
    /\ epc = "returned"
    /\ dA' = SeedA(tshape, A)
    /\ dB' = SeedB(tshape, B)
    /\ gfilled' = 0
    /\ epc' = "gradients"
    /\ UNCHANGED <<labVars, driverVars, mapperVars, samplingVars, stateVars, A, B, C, cutoffs, mixed, allocated, tshape, state,
                   written, nfilled, badReads, eraised, grad>>

\* One turn of the loops of fill_gradients: the sensitivities of the next entry.
GradStep ==
    /\ epc = "gradients"
    /\ LET shape == ShapeOf(cutoffs_minus_1(cutoffs, mixed[1]))
       IN  /\ gfilled + 1 < Size(shape)
           /\ LET idx == Visit(gfilled + 1, shape)
                  k == FillAxis(idx)
              IN  /\ dA' = [dA EXCEPT ![idx] = SensA(dA, state, A, B, idx, k)]
                  /\ dB' = [dB EXCEPT ![idx] = SensB(dB, state, A, B, idx, k)]
    /\ gfilled' = gfilled + 1
    /\ UNCHANGED <<labVars, driverVars, mapperVars, samplingVars, stateVars, A, B, C, cutoffs, epc, mixed, allocated, tshape, state,
                   written, nfilled, badReads, eraised, grad>>

\* fill_gradients is through: dC and the sums against the upstream gradient
\* dy, which is any tensor of the state's shape.
GradReturn ==
    /\ epc = "gradients"
    /\ gfilled + 1 >= Size(ShapeOf(cutoffs_minus_1(cutoffs, mixed[1])))
    /\ \E dy \in Upstream(tshape) : grad' = Backward(dy)
    /\ epc' = "backward"
    /\ UNCHANGED <<labVars, driverVars, mapperVars, samplingVars, stateVars, A, B, C, cutoffs, mixed, allocated, tshape, state,
                   written, nfilled, badReads, eraised, dA, dB, gfilled>>

NextEngine ==
    recursive_state \/ fill_amplitudes \/ FillStep \/ Return \/ Grad \/ GradStep \/ GradReturn

SpecEngine == InitEngine /\ [][NextEngine]_vars

\* ------------------------------------------------------------ the mapper
\* _Sigma_mu_C(cov, means, mixed, hbar).  The linear algebra is the
\* library's: the entry (i, j) of sQinv = tf.linalg.inv(sQ) is a symbol,
\* and an expression linear in these entries is the list of its terms.
\*   <<c, d, i, j>>  stands for  c * (d - sQinv[i, j])    (in A)
\*   <<z, i, j>>     stands for  z * sQinv[i, j]          (in gamma)
\* alpha, beta and gamma are held multiplied by sqrt(2 hbar).
MeanVals == {0, 1}
MeansVectors == UNION {[1..(2 * n) -> MeanVals] : n \in 1..MaxModes}
\* What sigma_Q(cov, hbar) can be for a real symmetric cov.
SigmaQKinds == {"posdef", "indefinite", "illconditioned", "singular"}

\* num_modes = means.shape[-1] // 2
NumModes(mu) == Len(mu) \div 2
\* A size that forgets the flag.
BlockSize_pure(n, mx) == n
\* N = num_modes + num_modes*mixed
BlockSize(n, mx) == n + n * (IF mx THEN 1 ELSE 0)
\* tf.linalg.inv raises on a matrix that is not invertible, and on no other.
InvRaises(kind) == kind = "singular"
\* utils.Xmat(num_modes): the permutation matrix that swaps the two blocks.
Xmat(n) == [i \in 1..(2 * n) |-> [j \in 1..(2 * n) |->
              IF j = ((i - 1 + n) % (2 * n)) + 1 THEN 1 ELSE 0]]
\* np.identity(2*num_modes) - sQinv
IdentityMinusInv(n) == [i \in 1..(2 * n) |-> [j \in 1..(2 * n) |->
                          <<IF i = j THEN 1 ELSE 0, i, j>>]]
\* X @ M for a matrix X of numbers: the terms with a non-zero coefficient,
\* in the order of the sum.
MatMul(X, M) == [i \in DOMAIN X |-> [j \in DOMAIN M[1] |->
                   SelectSeq([l \in DOMAIN M |-> <<X[i][l]>> \o M[l][j]],
                             LAMBDA term : term[1] # 0)]]
\* -A
Negated(M) == [i \in DOMAIN M |-> [j \in DOMAIN M[i] |->
                 [l \in DOMAIN M[i][j] |-> [M[i][j][l] EXCEPT ![1] = -@]]]]
\* M[:N, :N] and v[:N]
TopLeft(M, N) == [i \in 1..N |-> SubSeq(M[i], 1, N)]
Leading(v, N) == SubSeq(v, 1, N)
\* alpha = complex(means[:num_modes], means[num_modes:]) / sqrt(2 hbar)
Alpha(mu) == [i \in 1..NumModes(mu) |-> <<mu[i], mu[NumModes(mu) + i]>>]
\* beta = concat([alpha, conj(alpha)])
Beta(mu) == Alpha(mu) \o [i \in 1..NumModes(mu) |-> conj(Alpha(mu)[i])]
\* gamma = matvec(transpose(sQinv), conj(beta))
Gamma(mu) == [i \in 1..(2 * NumModes(mu)) |->
                [j \in 1..(2 * NumModes(mu)) |-> <<conj(Beta(mu)[j]), j, i>>]]
\* T = exp(-0.5 einsum('i,ij,j', beta, sQinv, conj(beta))) / sqrt(det(sQ)):
\* the coefficients of sQinv[i, j] in the exponent, times -2.
T(mu) == [i \in 1..(2 * NumModes(mu)) |-> [j \in 1..(2 * NumModes(mu)) |->
            CMul(Beta(mu)[i], conj(Beta(mu)[j]))]]
\* T ** (0.5 + 0.5*mixed): the base and twice the exponent.
Power(base, mx) == [base |-> base, twice_exponent |-> 1 + (IF mx THEN 1 ELSE 0)]

Sigma_mu_C(mu, mx) ==
    LET n == NumModes(mu)
        N == BlockSize(n, mx)
        AA == MatMul(Xmat(n), IdentityMinusInv(n))
    IN  [A |-> Negated(TopLeft(AA, N)),
         B |-> Leading(Gamma(mu), N),
         C |-> Power(T(mu), mx)]

InitMapper ==
    /\ DriverIdle
    /\ LabIdle
    /\ EngineIdle
    /\ SamplingIdle
    /\ StateIdle
    /\ means \in MeansVectors
    /\ mixed_arg \in BOOLEAN
    /\ sQ \in SigmaQKinds
    /\ mpc = "init"
    /\ mret = <<>>
    /\ mraised = None

\* The call on a sigma_Q that tf.linalg.inv inverts.
SigmaMuC ==
    /\ mpc = "init"
    /\ ~InvRaises(sQ)
    /\ mret' = Sigma_mu_C(means, mixed_arg)
    /\ mpc' = "returned"
    /\ UNCHANGED <<labVars, driverVars, engineVars, samplingVars, stateVars, means, mixed_arg, sQ, mraised>>

\* The call on a sigma_Q that tf.linalg.inv does not invert.
SigmaMuCRaises ==
    /\ mpc = "init"
    /\ InvRaises(sQ)
    /\ mraised' = "InvalidArgumentError"
    /\ mpc' = "raised"
    /\ UNCHANGED <<labVars, driverVars, engineVars, samplingVars, stateVars, means, mixed_arg, sQ, mret>>

NextMapper == SigmaMuC \/ SigmaMuCRaises

SpecMapper == InitMapper /\ [][NextMapper]_vars

\* ------------------------------------------ sampling a symplectic matrix
\* make_symplectic_parameter(init_value, trainable, num_modes).  The numbers
\* are exact: an entry of W and V is held multiplied by 5 (the phases
\* 1, (4+3i)/5 and (3+4i)/5, of angle 0, 0.64 and 0.93), r[i] is k ln 2
\* with k in {0, 1} and exp(-r), exp(r) are held multiplied by 2, so an
\* entry of val is held multiplied by 50.
Phases == {<<5, 0>>, <<4, 3>>, <<3, 4>>}
\* The unitaries sampled: for one mode a phase exp(1j*uniform()); for more
\* modes the unitaries with one phase per row, the rows shifted cyclically.
Unitaries(n) ==
    {[i \in 1..n |-> [j \in 1..n |->
        IF j = ((i - 1 + shift) % n) + 1 THEN Alternate(i, ph1, ph2) ELSE CZero]] :
       shift \in 0..(n - 1), ph1 \in Phases, ph2 \in Phases}
\* r = np.random.uniform(size=num_modes), as the multiples of ln 2
Squeezings(n) == {[i \in 1..n |-> Alternate(i, k1, k2)] : k1 \in {0, 1}, k2 \in {0, 1}}
\* 2 exp(-k ln 2) and 2 exp(k ln 2)
ExpNeg(k) == IF k = 0 THEN 2 ELSE 1
ExpPos(k) == IF k = 0 THEN 2 ELSE 4
\* The matrices given as init_value: None (<<>>) or the identity.
Identity(n) == [i \in 1..n |-> [j \in 1..n |-> IF i = j THEN 50 ELSE 0]]

RECURSIVE ISum(_)
ISum(xs) == IF xs = <<>> THEN 0 ELSE Head(xs) + ISum(Tail(xs))

\* block([[X, -Y], [Y, X]]) with X = real(U), Y = imag(U)
unitary_to_orthogonal(U) ==
    LET n == Len(U)
    IN  [i \in 1..(2 * n) |-> [j \in 1..(2 * n) |->
           IF i <= n /\ j <= n THEN U[i][j][1]
           ELSE IF i <= n THEN -U[i][j - n][2]
           ELSE IF j <= n THEN U[i - n][j][2]
           ELSE U[i - n][j - n][1]]]
\* dd = concat([exp(-r), exp(r)])
Diagonal(rr) == [i \in 1..Len(rr) |-> ExpNeg(rr[i])] \o [i \in 1..Len(rr) |-> ExpPos(rr[i])]
\* tf.einsum('ij,j,jk->ik', OW, dd, OV)
einsum(ow, dd, ov) ==
    [i \in DOMAIN ow |-> [k \in DOMAIN ov |->
        ISum([j \in DOMAIN dd |-> ow[i][j] * dd[j] * ov[j][k]])]]

InitSymplectic ==
    /\ DriverIdle
    /\ LabIdle
    /\ EngineIdle
    /\ MapperIdle
    /\ StateIdle
    /\ num_modes \in 1..MaxModes
    /\ symp_init_value \in {<<>>, <<Identity(2 * num_modes)>>}
    /\ trainable \in BOOLEAN
    /\ W = <<>>
    /\ V = <<>>
    /\ r = <<>>
    /\ val = <<>>
    /\ made = None

make_symplectic_parameter ==
    /\ made = None
    /\ IF symp_init_value = <<>>
       THEN \E w \in Unitaries(num_modes), v \in Unitaries(num_modes),
               rr \in Squeezings(num_modes) :
               /\ W' = w
               /\ V' = v
               /\ r' = rr
               /\ val' = einsum(unitary_to_orthogonal(w), Diagonal(rr),
                                unitary_to_orthogonal(v))
       ELSE /\ val' = symp_init_value[1]
            /\ UNCHANGED <<W, V, r>>
    /\ made' = IF trainable THEN "Variable" ELSE "constant"
    /\ UNCHANGED <<labVars, driverVars, engineVars, mapperVars, stateVars, num_modes, symp_init_value,
                   trainable>>

NextSymplectic == make_symplectic_parameter

SpecSymplectic == InitSymplectic /\ [][NextSymplectic]_vars

\* ------------------------------------------------- the State object
\* A Gaussian State (built from cov and means) whose data follow a trainable
\* parameter.  cov is the value the properties State.cov and State.means
\* return now; a Fock tensor is known by the value it was computed from,
\* its shape and its kind (ket, dm or probabilities).
Values == 0..MaxValue
\* The cutoffs argument of ket, dm and fock_probabilities: None (<<>>) or
\* one entry per mode, each None (<<>>) or a cutoff (<<c>>); the lists given
\* have the same entry for every mode.
CutoffArgs(n) ==
    {<<>>} \cup {[i \in 1..n |-> e] : e \in {<<>>} \cup {<<c>> : c \in 1..MaxCutoff}}

\* A tensor in Fock representation: the value of cov and means (or of the
\* array the state was built from) its entries come from, its shape, what
\* it holds (ket, dm, probs), and `stored`: the entries at the indices below
\* stored are those computed or given, all others are padding zeros.
\* fock.autocutoffs(number_stdev, number_means): cutoffs that follow the
\* current cov and means
autocutoffs(v, n) == [i \in 1..n |-> (v % MaxCutoff) + 1]
\* fock.fock_representation(cov, means, shape, return_dm)
fock_representation(v, shape, return_dm) ==
    [cov |-> v, shape |-> shape, kind |-> IF return_dm THEN "dm" ELSE "ket", stored |-> shape]
ket_to_dm(t) == [t EXCEPT !.shape = @ \o @, !.kind = "dm", !.stored = @ \o @]
ket_to_probs(t) == [t EXCEPT !.kind = "probs"]
dm_to_probs(t) ==
    [t EXCEPT !.shape = SubSeq(@, 1, Len(@) \div 2), !.kind = "probs",
              !.stored = SubSeq(@, 1, Len(@) \div 2)]

Smaller(a, b) == IF a <= b THEN a ELSE b
\* paddings = [(0, max(0, new - old)) for new, old in zip(cutoffs, current_cutoffs)]
Paddings(new, old) ==
    [i \in 1..Smaller(Len(new), Len(old)) |-> IF new[i] > old[i] THEN new[i] - old[i] ELSE 0]
\* fock.math.pad(tensor, paddings, mode="constant"): zeros after the entries
\* of every axis; one pair of paddings per axis is required
PadRaises(t, paddings) == Len(paddings) # Len(t.shape)
pad(t, paddings) == [t EXCEPT !.shape = [i \in DOMAIN @ |-> @[i] + paddings[i]]]
\* padded[tuple([slice(s) for s in cutoffs])]: the leading axes cut to the
\* slices, the axes after them whole
Sliced(t, slices) ==
    [t EXCEPT !.shape = [i \in DOMAIN @ |->
                           IF i <= Len(slices) THEN Smaller(@[i], slices[i]) ELSE @[i]],
              !.stored = [i \in DOMAIN @ |->
                           IF i <= Len(slices) THEN Smaller(@[i], slices[i]) ELSE @[i]]]

\* State.is_pure, State.is_mixed (through State.purity, which memoizes)
IsPure == is_pure_state
\* State.cutoffs
Cutoffs ==
    IF _fock = <<>> THEN autocutoffs(cov, state_modes)
    ELSE SubSeq(_fock[1].shape, 1, state_modes)
\* State.shape
Shape == IF IsPure THEN Cutoffs ELSE Cutoffs \o Cutoffs
\* cutoffs = self.cutoffs if cutoffs is None, else the None entries filled in
Resolved(arg) ==
    IF arg = <<>> THEN Cutoffs
    ELSE [i \in 1..state_modes |-> IF arg[i] = <<>> THEN Cutoffs[i] ELSE arg[i][1]]
\* The branch of ket and dm of a state held in Fock representation only:
\* pad and slice self._fock when the cutoffs differ from the current ones.
Fitted(cut, paddings, slices) ==
    IF cut # SubSeq(_fock[1].shape, 1, state_modes)
    THEN IF \E i \in DOMAIN paddings : paddings[i] # 0
         THEN IF PadRaises(_fock[1], paddings)
              THEN [fock |-> _fock, result |-> <<>>, raised |-> "InvalidArgumentError"]
              ELSE [fock |-> _fock, result |-> <<Sliced(pad(_fock[1], paddings), slices)>>,
                    raised |-> None]
         ELSE [fock |-> _fock, result |-> <<Sliced(_fock[1], slices)>>, raised |-> None]
    ELSE [fock |-> _fock, result |-> _fock, raised |-> None]
\* State.ket(cutoffs): what it stores in _fock, what it returns (<<>>: None)
\* and the error it raises
KetResult(arg) ==
    IF ~IsPure THEN [fock |-> _fock, result |-> <<>>, raised |-> None]
    ELSE IF is_gaussian
    THEN [fock |-> <<fock_representation(cov, Resolved(arg), FALSE)>>,
          result |-> <<fock_representation(cov, Resolved(arg), FALSE)>>,
          raised |-> None]
    ELSE Fitted(Resolved(arg),
                Paddings(Resolved(arg), SubSeq(_fock[1].shape, 1, state_modes)),
                Resolved(arg))
\* State.dm(cutoffs)
DmResult(arg) ==
    IF IsPure
    THEN IF KetResult(arg).raised # None THEN KetResult(arg)
         ELSE [fock |-> KetResult(arg).fock, result |-> <<ket_to_dm(KetResult(arg).result[1])>>,
               raised |-> None]
    ELSE IF is_gaussian
    THEN [fock |-> <<fock_representation(cov, Resolved(arg) \o Resolved(arg), TRUE)>>,
          result |-> <<fock_representation(cov, Resolved(arg) \o Resolved(arg), TRUE)>>,
          raised |-> None]
    ELSE LET paddings == Paddings(Resolved(arg), SubSeq(_fock[1].shape, 1, state_modes))
         IN  Fitted(Resolved(arg), paddings \o paddings, Resolved(arg) \o Resolved(arg))

\* The arrays a state is built from: the shapes alternate between two
\* cutoffs, a ket has one axis per mode and a dm two.
FockShapes(n) ==
    {[i \in 1..n |-> Alternate(i, c1, c2)] : c1 \in 1..MaxCutoff, c2 \in 1..MaxCutoff}
\* State.__init__ with cov and means: a state in Gaussian representation
InitGaussianState ==
    /\ is_gaussian = TRUE
    /\ cov \in Values
    /\ state_modes \in 1..MaxModes
    /\ is_pure_state \in BOOLEAN
    /\ _fock = <<>>
    /\ _purity = <<>>
\* State.__init__ with ket or dm: a state in Fock representation only; a
\* ket is pure, a dm has the purity fock.purity finds
InitFockState ==
    /\ is_gaussian = FALSE
    /\ cov = 0
    /\ state_modes \in 1..MaxModes
    /\ \E s \in FockShapes(state_modes) :
          \/ /\ _fock = <<[cov |-> 0, shape |-> s, kind |-> "ket", stored |-> s]>>
             /\ is_pure_state = TRUE
             /\ _purity = <<TRUE>>
          \/ /\ _fock = <<[cov |-> 0, shape |-> s \o s, kind |-> "dm", stored |-> s \o s]>>
             /\ is_pure_state \in BOOLEAN
             /\ _purity = <<>>

InitState ==
    /\ DriverIdle
    /\ LabIdle
    /\ EngineIdle
    /\ MapperIdle
    /\ SamplingIdle
    /\ (InitGaussianState \/ InitFockState)
    /\ _fock_probabilities = <<>>
    /\ read = [op |-> "none", arg |-> <<>>, result |-> <<>>, raised |-> None, cov |-> cov]

\* An optimizer step assigns a new value to the parameter the state's cov
\* and means are computed from.
ParameterChange ==
    /\ is_gaussian
    /\ \E v \in Values \ {cov} : cov' = v
    /\ UNCHANGED <<labVars, driverVars, engineVars, mapperVars, samplingVars, state_modes,
                   is_gaussian, is_pure_state, _fock, _fock_probabilities, _purity, read>>

\* A read of the property State.fock
Fock ==
    /\ _fock' = IF _fock = <<>> THEN <<fock_representation(cov, Shape, ~IsPure)>> ELSE _fock
    /\ _purity' = IF _fock = <<>> THEN <<IsPure>> ELSE _purity
    /\ read' = [op |-> "fock", arg |-> <<>>, result |-> _fock', raised |-> None, cov |-> cov]
    /\ UNCHANGED <<labVars, driverVars, engineVars, mapperVars, samplingVars, cov, state_modes,
                   is_gaussian, is_pure_state, _fock_probabilities>>

\* A call of State.ket(cutoffs)
Ket ==
    /\ \E arg \in CutoffArgs(state_modes) :
          /\ _fock' = KetResult(arg).fock
          /\ read' = [op |-> "ket", arg |-> arg, result |-> KetResult(arg).result,
                      raised |-> KetResult(arg).raised, cov |-> cov]
    /\ _purity' = <<IsPure>>
    /\ UNCHANGED <<labVars, driverVars, engineVars, mapperVars, samplingVars, cov, state_modes,
                   is_gaussian, is_pure_state, _fock_probabilities>>

\* A call of State.dm(cutoffs)
Dm ==
    /\ \E arg \in CutoffArgs(state_modes) :
          /\ _fock' = DmResult(arg).fock
          /\ read' = [op |-> "dm", arg |-> arg, result |-> DmResult(arg).result,
                      raised |-> DmResult(arg).raised, cov |-> cov]
    /\ _purity' = <<IsPure>>
    /\ UNCHANGED <<labVars, driverVars, engineVars, mapperVars, samplingVars, cov, state_modes,
                   is_gaussian, is_pure_state, _fock_probabilities>>

\* A call of State.fock_probabilities(cutoffs)
FockProbabilities ==
    /\ \E arg \in CutoffArgs(state_modes) :
          /\ IF _fock_probabilities = <<>>
             THEN LET got == IF ~IsPure THEN DmResult(arg) ELSE KetResult(arg)
                  IN  /\ _fock' = got.fock
                      /\ _fock_probabilities' =
                            IF got.raised # None THEN <<>>
                            ELSE IF ~IsPure THEN <<dm_to_probs(got.result[1])>>
                            ELSE <<ket_to_probs(got.result[1])>>
                      /\ read' = [op |-> "fock_probabilities", arg |-> arg,
                                  result |-> _fock_probabilities', raised |-> got.raised,
                                  cov |-> cov]
             ELSE /\ UNCHANGED <<_fock, _fock_probabilities>>
                  /\ read' = [op |-> "fock_probabilities", arg |-> arg,
                              result |-> _fock_probabilities, raised |-> None, cov |-> cov]
    /\ _purity' = IF _fock_probabilities = <<>> THEN <<IsPure>> ELSE _purity
    /\ UNCHANGED <<labVars, driverVars, engineVars, mapperVars, samplingVars, cov, state_modes,
                   is_gaussian, is_pure_state>>

NextState == ParameterChange \/ Fock \/ Ket \/ Dm \/ FockProbabilities

SpecState == InitState /\ [][NextState]_vars

\* ------------------------------------------------ the backend's matrices
\* The entries of the matrices handed to sandwich.
Entries == {-1, 2}
\* modes: the lists of distinct modes of an n-mode matrix
ModeLists(n) ==
    {l \in UNION {[1..k -> 0..(n - 1)] : k \in 1..n} :
        \A i \in DOMAIN l : \A j \in DOMAIN l : i # j => l[i] # l[j]}
\* bread: None, or a matrix of size 2 len(modes)
Breads(k) ==
    {<<>>} \cup
    {[i \in 1..(2 * k) |-> [j \in 1..(2 * k) |->
         IF i = j THEN d ELSE IF i < j THEN up ELSE lo]] :
       d \in Entries, up \in Entries, lo \in Entries}
\* filling: matrices of size 2n whose entries all differ, and their shifts
Fillings(n) ==
    {[i \in 1..(2 * n) |-> [j \in 1..(2 * n) |-> a * ((i - 1) * 2 * n + j) + b * (i + j)]] :
       a \in {1, -1}, b \in {0, 1}}

\* modes + [m+N for m in modes], as positions counted from 1
Indices_of(ms, n) ==
    [a \in 1..(2 * Len(ms)) |->
       IF a <= Len(ms) THEN ms[a] + 1 ELSE ms[a - Len(ms)] + n + 1]
RECURSIVE Sum(_)
Sum(s) == IF s = <<>> THEN 0 ELSE s[1] + Sum(Tail(s))
\* tf.matmul(a, b), a @ b
matmul(a, b) ==
    [i \in DOMAIN a |-> [j \in DOMAIN b[1] |-> Sum([l \in DOMAIN b |-> a[i][l] * b[l][j]])]]
\* tf.transpose(a)
transpose(a) == [j \in DOMAIN a[1] |-> [i \in DOMAIN a |-> a[i][j]]]
\* tf.gather(a, indices): the rows of a at indices
gather(a, indices) == [n \in DOMAIN indices |-> a[indices[n]]]
\* tf.tensor_scatter_nd_update(a, indices[:,None], updates): row indices[n]
\* of a becomes updates[n]
tensor_scatter_nd_update(a, indices, updates) ==
    [i \in DOMAIN a |->
       IF \E n \in DOMAIN indices : indices[n] = i
       THEN updates[CHOOSE n \in DOMAIN indices : indices[n] = i]
       ELSE a[i]]

\* An update of the rows only.
sandwich_rows(b, f, ms) ==
    IF b = <<>> THEN f
    ELSE LET indices == Indices_of(ms, Len(f) \div 2)
         IN  tensor_scatter_nd_update(f, indices, matmul(b, gather(f, indices)))
\* TFMathbackend.sandwich(bread, filling, modes)
sandwich(b, f, ms) ==
    IF b = <<>> THEN f
    ELSE LET N == Len(f) \div 2
             indices == Indices_of(ms, N)
             rows == matmul(b, gather(f, indices))
             filling1 == tensor_scatter_nd_update(f, indices, rows)
             columns == matmul(b, gather(transpose(filling1), indices))
         IN  transpose(tensor_scatter_nd_update(transpose(filling1), indices, columns))

InitBackend ==
    /\ DriverIdle
    /\ FockIdle
    /\ PurityIdle
    /\ ProjectIdle
    /\ \E n \in 1..MaxModes :
          /\ filling \in Fillings(n)
          /\ modes \in ModeLists(n)
    /\ bread \in Breads(Len(modes))
    /\ sret = <<>>
    /\ tcall = [op |-> "none", nbar |-> 0, hbar |-> 0, raised |-> None, returned |-> <<>>]
    /\ tcalls = 0

\* A call of sandwich(bread, filling, modes)
Sandwich ==
    /\ sret = <<>>
    /\ sret' = <<sandwich(bread, filling, modes)>>
    /\ UNCHANGED <<driverVars, fockVars, purityVars, projectVars, bread, filling, modes, tcall, tcalls>>

\* A thermal_X that fails on the first call only.
thermal_X_transient(nbar, hbar) ==
    /\ tcalls < MaxSteps
    /\ tcall' = [op |-> "thermal_X", nbar |-> nbar, hbar |-> hbar,
                 raised |-> IF tcalls = 0 THEN "NotImplementedError" ELSE None,
                 returned |-> IF tcalls = 0 THEN <<>> ELSE <<filling>>]
    /\ tcalls' = tcalls + 1
    /\ UNCHANGED <<driverVars, fockVars, purityVars, projectVars, bread, filling, modes, sret>>
\* TFGateBackend.thermal_X(nbar, hbar)
thermal_X(nbar, hbar) ==
    /\ tcalls < MaxSteps
    /\ tcall' = [op |-> "thermal_X", nbar |-> nbar, hbar |-> hbar,
                 raised |-> "NotImplementedError", returned |-> <<>>]
    /\ tcalls' = tcalls + 1
    /\ UNCHANGED <<driverVars, fockVars, purityVars, projectVars, bread, filling, modes, sret>>
\* TFGateBackend.thermal_Y(nbar, hbar)
thermal_Y(nbar, hbar) ==
    /\ tcalls < MaxSteps
    /\ tcall' = [op |-> "thermal_Y", nbar |-> nbar, hbar |-> hbar,
                 raised |-> "NotImplementedError", returned |-> <<>>]
    /\ tcalls' = tcalls + 1
    /\ UNCHANGED <<driverVars, fockVars, purityVars, projectVars, bread, filling, modes, sret>>

\* The arguments of the thermal calls: a mean photon number and hbar.
Nbars == {0, 1}
Hbars == {1, 2}
ThermalX == \E nbar \in Nbars : \E hbar \in Hbars : thermal_X(nbar, hbar)
ThermalY == \E nbar \in Nbars : \E hbar \in Hbars : thermal_Y(nbar, hbar)

NextBackend == Sandwich \/ ThermalX \/ ThermalY

SpecBackend == InitBackend /\ [][NextBackend]_vars

\* ------------------------------------------------- purity of a State
\* The symplectic eigenvalues of the covariance matrix, one per mode, as
\* the number of units they lie above hbar/2.
Eigenvalues == UNION {[1..n -> 0..MaxValue] : n \in 1..MaxModes}
RECURSIVE Product(_)
Product(s) == IF s = <<>> THEN 1 ELSE s[1] * Product(Tail(s))
\* gaussian.purity(cov, hbar) = 1 / sqrt(det(2 cov / hbar)), the fraction
\* <<numerator, denominator>>: 1 over the product of the 2 nu / hbar
purity(eigs) == <<1, Product([i \in DOMAIN eigs |-> 1 + eigs[i]])>>
\* np.isclose(purity, 1.0, atol=1e-6)
isclose_1(p) == p[1] = p[2]
\* State.purity: self._purity after the read
Purity == IF _purity = <<>> THEN <<purity(eigenvalues)>> ELSE _purity
\* State.is_pure
is_pure == isclose_1(Purity[1])
\* State.is_mixed, and Gaussian.is_mixed: any(eigenvalues > hbar/2)
is_mixed(k) ==
    IF k = "Gaussian" THEN \E i \in DOMAIN eigenvalues : eigenvalues[i] > 0
    ELSE ~is_pure

InitPurity ==
    /\ DriverIdle
    /\ FockIdle
    /\ BackendIdle
    /\ ProjectIdle
    /\ klass \in {"State", "Gaussian"}
    /\ eigenvalues \in Eigenvalues
    /\ pread = <<>>

\* An optimizer step assigns new eigenvalues (the bounds keep them at
\* hbar/2 or above).
EigenvaluesChange ==
    /\ \E e \in Eigenvalues : Len(e) = Len(eigenvalues) /\ e # eigenvalues /\ eigenvalues' = e
    /\ UNCHANGED <<driverVars, fockVars, backendVars, projectVars, klass, pread>>

\* A read of is_mixed and of is_pure, one after the other.
ReadPurity ==
    /\ pread' = <<[is_mixed |-> is_mixed(klass), is_pure |-> is_pure]>>
    /\ _purity' = Purity
    /\ UNCHANGED <<driverVars, engineVars, mapperVars, samplingVars, backendVars, projectVars,
                   cov, state_modes, is_pure_state, is_gaussian, _fock, _fock_probabilities,
                   read, klass, eigenvalues>>

NextPurity == EigenvaluesChange \/ ReadPurity

SpecPurity == InitPurity /\ [][NextPurity]_vars

\* ------------------------------------------------- State.__call__
\* The attributes the class of the projecting state defines besides those
\* of State: Fock defines _preferred_projection.
Attributes(defines) == IF defines THEN {"_preferred_projection"} ELSE {}
\* The name Python looks up for an identifier with two leading underscores
\* written inside class State.
Mangled(name) ==
    IF name = "__preferred_projection" THEN "_State__preferred_projection" ELSE name
\* self.__preferred_projection raises AttributeError
AttributeError(defines) == Mangled("__preferred_projection") \notin Attributes(defines)

\* list(range(n))
range(n) == [i \in 1..n |-> i - 1]
In(m, l) == \E i \in DOMAIN l : l[i] = m
\* remaining_modes = [m for m in range(other.num_modes) if m not in self._modes]
remaining_modes(n, ms) == SelectSeq(range(n), LAMBDA m : ~In(m, ms))
\* The loop over range(other.num_modes) that builds other_cutoffs.
RECURSIVE OtherCutoffs(_, _, _, _, _)
OtherCutoffs(m, used, ms, own, others) ==
    IF m >= Len(others) THEN <<>>
    ELSE IF In(m, ms)
    THEN <<own[used + 1]>> \o OtherCutoffs(m + 1, used + 1, ms, own, others)
    ELSE <<others[m + 1]>> \o OtherCutoffs(m + 1, used, ms, own, others)

\* The modes a state is given: distinct modes of the other state.
ModesOf(k, n) ==
    {l \in [1..k -> 0..(n - 1)] : \A i \in 1..k : \A j \in 1..k : i # j => l[i] # l[j]}

InitProject ==
    /\ DriverIdle
    /\ FockIdle
    /\ BackendIdle
    /\ PurityIdle
    /\ onum \in 1..MaxModes
    /\ pnum \in 1..onum
    /\ explicit_modes \in BOOLEAN
    /\ _modes \in IF explicit_modes THEN {<<l>> : l \in ModesOf(pnum, onum)} ELSE {<<>>}
    /\ modes_read = FALSE
    /\ defines_pp \in BOOLEAN
    /\ gaussians \in BOOLEAN
    /\ own_cutoffs \in {[i \in 1..pnum |-> c] : c \in 1..MaxCutoff}
    /\ others_cutoffs \in {[i \in 1..onum |-> c] : c \in 1..MaxCutoff}
    /\ ppc = "init"
    /\ pret = <<>>
    /\ praised = None

\* A read of the property State.modes (its second definition, the one in
\* force): unset modes are set to the default ones.
Modes ==
    /\ ppc = "init"
    /\ ~modes_read
    /\ _modes' = IF _modes = <<>> THEN <<range(pnum)>> ELSE _modes
    /\ modes_read' = TRUE
    /\ UNCHANGED <<driverVars, fockVars, backendVars, purityVars, onum, pnum, explicit_modes,
                   defines_pp, gaussians, own_cutoffs, others_cutoffs, ppc, pret, praised>>

\* self(other), other a State: `m not in self._modes` raises TypeError when
\* self._modes is None; two Gaussian states go through general_dyne, any
\* other pair through the preferred projection or, on AttributeError, the
\* default contraction.
Call ==
    /\ ppc = "init"
    /\ IF _modes = <<>>
       THEN /\ ppc' = "raised"
            /\ praised' = "TypeError"
            /\ UNCHANGED pret
       ELSE /\ ppc' = "returned"
            /\ pret' = <<[remaining |-> remaining_modes(onum, _modes[1]),
                          path |-> IF gaussians THEN "general_dyne"
                                   ELSE IF AttributeError(defines_pp) THEN "contract_states"
                                   ELSE "preferred_projection",
                          cutoffs |-> IF gaussians THEN <<>>
                                      ELSE OtherCutoffs(0, 0, _modes[1], own_cutoffs,
                                                        others_cutoffs)]>>
            /\ UNCHANGED praised
    /\ UNCHANGED <<driverVars, fockVars, backendVars, purityVars, onum, pnum, explicit_modes,
                   _modes, modes_read, defines_pp, gaussians, own_cutoffs, others_cutoffs>>

NextProject == Modes \/ Call

SpecProject == InitProject /\ [][NextProject]_vars

\* -------------------------------------------- properties of the engine
\* The inputs the engine accepts: the calls that reach the fill and return.
Accepted == epc \in {"filling", "returned", "gradients", "backward"}

\* C11: for every input the engine accepts, the tensor has one axis per
\* entry of B, its shape is cutoffs when len(B) = len(cutoffs) and cutoffs
\* followed by cutoffs when len(B) = 2 len(cutoffs), and its entry at the
\* all-zero index is C.
C11_ShapeAndSeed ==
    Accepted =>
        /\ allocated
        /\ Len(tshape) = Len(B)
        /\ (Len(B) = Len(cutoffs) => tshape = cutoffs)
        /\ (Len(B) = 2 * Len(cutoffs) => tshape = cutoffs \o cutoffs)
        /\ DOMAIN state = Indices(tshape)
        /\ state[Zero(tshape)] = C

\* A mixed call has returned a tensor with more than one entry per axis.
C11_Witness ==
    /\ epc = "returned"
    /\ Len(B) = 2 * Len(cutoffs)
    /\ tshape = cutoffs \o cutoffs
    /\ \E i \in DOMAIN cutoffs : cutoffs[i] > 1
    /\ state[Zero(tshape)] = C

\* The errors that reject an argument.
InvalidArgument == {"InvalidArgument", "ValueError"}

\* C12: a cutoffs list with a non-positive entry is rejected with an
\* invalid-argument error before any tensor is allocated.
C12_NonPositiveCutoffRejected ==
    (epc # "init" /\ \E i \in DOMAIN cutoffs : cutoffs[i] <= 0) =>
        /\ eraised \in InvalidArgument
        /\ ~allocated

\* The arguments the engine's contract excludes: a non-square A, a B of
\* another length than the size of A, a number of cutoffs that is neither
\* len(B) nor len(B)/2.
Malformed ==
    \/ \E i \in DOMAIN A : Len(A[i]) # Len(A)
    \/ Len(B) # Len(A)
    \/ (Len(cutoffs) # Len(B) /\ 2 * Len(cutoffs) # Len(B))

\* C13: malformed arguments are rejected with InvalidArgument before the
\* engine classifies them as pure or mixed and before it allocates or
\* fills a tensor.
C13_MalformedRejectedFirst ==
    (epc # "init" /\ Malformed) =>
        /\ eraised \in InvalidArgument
        /\ mixed = <<>>
        /\ ~allocated
        /\ nfilled = 0

\* C14: the fill starts from the one seeded entry at the all-zero index,
\* reads no entry before it is written, and has written every entry when
\* the engine returns.
C14_NoReadBeforeWrite ==
    /\ badReads = {}
    /\ (epc = "seeded" => written = {Zero(tshape)})
    /\ (Accepted => written \subseteq Indices(tshape) /\ Cardinality(written) = nfilled + 1)
    /\ (epc \in {"returned", "gradients", "backward"} => written = Indices(tshape))

\* The fill has written an entry that needed two earlier entries.
C14_Witness ==
    /\ epc = "returned"
    /\ Cardinality(written) > 3
    /\ \E idx \in written : \E k \in 1..Len(idx) :
          idx[k] >= 1 /\ Cardinality(Reads(idx, k)) >= 2

\* The right-hand side of the recurrence for the entry at idx along axis
\* k, the entries scaled by sqrt(idx!), terms with a negative index zero.
RecurrenceRHS(idx, k) ==
    CAdd(CMul(B[k], state[Dec(idx, k)]),
         CSum([j \in 1..Len(idx) |->
                 IF Dec(idx, k)[j] >= 1
                 THEN CMul(CScale(Dec(idx, k)[j], A[k][j]), state[Dec(Dec(idx, k), j)])
                 ELSE CZero]))

Symmetric(a) == \A i \in DOMAIN a : \A j \in DOMAIN a : a[i][j] = a[j][i]

\* C15 as stated: the returned tensor satisfies the recurrence for every
\* multi-index and every axis k with idx[k] >= 1, whatever A is.
C15_RecurrenceEveryAxis ==
    epc \in {"returned", "gradients", "backward"} =>
        \A idx \in Indices(tshape) : \A k \in 1..Len(idx) :
            idx[k] >= 1 => state[idx] = RecurrenceRHS(idx, k)

\* C15: the tensor the engine returns satisfies the recurrence for every
\* multi-index along the axis the fill advanced to reach it and, when A is
\* symmetric, along every axis k with idx[k] >= 1. (The backward pass leaves
\* the tensor as it was returned.)
C15_Recurrence ==
    epc = "returned" =>
        \A idx \in Indices(tshape) : \A k \in 1..Len(idx) :
            (idx[k] >= 1 /\ (Symmetric(A) \/ k = FillAxis(idx))) =>
                state[idx] = RecurrenceRHS(idx, k)

\* A symmetric A with the tensor filled along two axes: an entry that two
\* axes reach.
C15_Witness ==
    /\ epc = "returned"
    /\ Symmetric(A)
    /\ \E idx \in Indices(tshape) :
          /\ Cardinality({k \in 1..Len(idx) : idx[k] >= 1}) >= 2
          /\ \A k \in 1..Len(idx) : idx[k] >= 1 => state[idx] = RecurrenceRHS(idx, k)

AllOnes(cs) == \A i \in DOMAIN cs : cs[i] = 1

\* C16: when every cutoff is 1 the tensor has the one entry C, the backward
\* pass returns all-zero gradients for A and B for every dy, and
\* dC = tensor / C.
C16_VacuumOnly ==
    (AllOnes(cutoffs) /\ epc \in {"returned", "gradients", "backward"}) =>
        /\ Indices(tshape) = {Zero(tshape)}
        /\ state[Zero(tshape)] = C
        /\ (epc = "backward" =>
              /\ \A i \in DOMAIN A : \A j \in DOMAIN A[i] : grad.dLdA[i][j] = CZero
              /\ \A i \in DOMAIN B : grad.dLdB[i] = CZero
              /\ CMul(grad.dC[Zero(tshape)], C) = state[Zero(tshape)]
              /\ grad.dLdC = CMul(grad.dy[Zero(tshape)], conj(grad.dC[Zero(tshape)])))

\* The backward pass ran on a one-entry tensor with a non-zero dy.
C16_Witness ==
    /\ epc = "backward"
    /\ AllOnes(cutoffs)
    /\ grad.dy[Zero(tshape)] # CZero
    /\ grad.dLdC # CZero
    /\ \A i \in DOMAIN B : grad.dLdB[i] = CZero

\* -------------------------------------------- properties of the mapper
\* The block the permutation X moves to row i.
Swapped(i, n) == IF i <= n THEN i + n ELSE i - n

\* C17: for an N-mode input the mapper returns A of shape N x N and B of
\* length N when mixed is false, 2N x 2N and 2N when it is true; A is the
\* negated top-left block of X (I - sigma_Q^-1), B the leading block of
\* gamma = sigma_Q^-T conj(beta), and C = T^(0.5 + 0.5 mixed).
C17_TripleShapes ==
    mpc = "returned" =>
        LET n == Len(means) \div 2
            N == IF mixed_arg THEN 2 * n ELSE n
        IN  /\ Len(mret.A) = N
            /\ Len(mret.B) = N
            /\ \A i \in 1..N :
                  /\ Len(mret.A[i]) = N
                  /\ \A j \in 1..N :
                        mret.A[i][j] =
                            << <<-1, IF Swapped(i, n) = j THEN 1 ELSE 0, Swapped(i, n), j>> >>
                  /\ Len(mret.B[i]) = 2 * n
                  /\ \A j \in 1..(2 * n) :
                        mret.B[i][j] =
                            <<conj(IF j <= n THEN <<means[j], means[n + j]>>
                                   ELSE conj(<<means[j - n], means[j]>>)), j, i>>
            /\ mret.C.twice_exponent = (IF mixed_arg THEN 2 ELSE 1)
            /\ mret.C.base = T(means)

\* The mapper has returned the triple of a mixed state with non-zero means.
C17_Witness ==
    /\ mpc = "returned"
    /\ mixed_arg
    /\ Len(means) = 4
    /\ Len(mret.A) = 4
    /\ Len(mret.B) = 4
    /\ \E i \in DOMAIN means : means[i] # 0

\* C18: when sigma_Q is singular, ill-conditioned or not positive-definite
\* the mapper fails with an error and returns no triple.
C18_BadSigmaQRaises ==
    (mpc # "init" /\ sQ # "posdef") => (mpc = "raised" /\ mraised # None /\ mret = <<>>)

\* --------------------------------- properties of the symplectic sampling
\* C19: a freshly sampled symplectic parameter is OW diag(exp(-r), exp(r))
\* OV^T: its entry (i, k) is the sum over j of OW[i,j] d[j] OV[k,j], OW and
\* OV the block embeddings [[Re, -Im], [Im, Re]] of W and V.
C19_FreshValue ==
    (made # None /\ symp_init_value = <<>>) =>
        LET OW == unitary_to_orthogonal(W)
            OV == unitary_to_orthogonal(V)
            d == [j \in 1..num_modes |-> ExpNeg(r[j])] \o [j \in 1..num_modes |-> ExpPos(r[j])]
        IN  \A i \in 1..(2 * num_modes) : \A k \in 1..(2 * num_modes) :
               val[i][k] = ISum([j \in 1..(2 * num_modes) |-> OW[i][j] * d[j] * OV[k][j]])

\* ----------------------------------------- properties of the State object
\* C20: every read of the Fock representation of a Gaussian state (fock,
\* ket, dm, fock_probabilities) returns a tensor computed from the cov and
\* means the state has at the time of the read, also after a parameter of
\* the state has changed.
C20_ReadsAreCurrent ==
    read.result # <<>> => read.result[1].cov = read.cov

\* ------------------------------------------ properties of the backend
\* C21: every call of thermal_X and of thermal_Y, whatever its arguments
\* and whatever calls came before, raises NotImplementedError, returns no
\* matrix and changes nothing else.
C21_ThermalUnsupported ==
    [][tcalls' # tcalls =>
         /\ tcall'.op \in {"thermal_X", "thermal_Y"}
         /\ tcall'.raised = "NotImplementedError"
         /\ tcall'.returned = <<>>
         /\ UNCHANGED <<driverVars, fockVars, purityVars, projectVars, bread, filling, modes, sret>>]_vars

\* thermal_X was called a second time, after a call of sandwich returned.
C21_Witness ==
    /\ tcalls >= 2
    /\ tcall.op = "thermal_X"
    /\ tcall.raised = "NotImplementedError"
    /\ sret # <<>>

\* The identity of size 2n with b on the rows and columns of indices.
Embedded(b, indices, n) ==
    [i \in 1..(2 * n) |-> [j \in 1..(2 * n) |->
       IF (\E x \in DOMAIN indices : indices[x] = i) /\ (\E y \in DOMAIN indices : indices[y] = j)
       THEN b[CHOOSE x \in DOMAIN indices : indices[x] = i][CHOOSE y \in DOMAIN indices : indices[y] = j]
       ELSE IF i = j THEN 1 ELSE 0]]

\* C30: sandwich(bread, filling, modes) is E filling E^T, E the identity
\* with bread on the rows and columns {m, m+N : m in modes}: the block on
\* those indices is bread block bread^T, the entries with row and column
\* both outside them are those of filling, and with bread = None the
\* result is filling.
C30_Sandwich ==
    sret # <<>> =>
        LET N == Len(filling) \div 2
            indices == Indices_of(modes, N)
            inside == {indices[x] : x \in DOMAIN indices}
            block(f) == [x \in DOMAIN indices |-> [y \in DOMAIN indices |-> f[indices[x]][indices[y]]]]
        IN  IF bread = <<>> THEN sret[1] = filling
            ELSE /\ sret[1] = matmul(matmul(Embedded(bread, indices, N), filling),
                                     transpose(Embedded(bread, indices, N)))
                 /\ block(sret[1]) = matmul(matmul(bread, block(filling)), transpose(bread))
                 /\ \A i \in 1..(2 * N) : \A j \in 1..(2 * N) :
                       (i \notin inside /\ j \notin inside) => sret[1][i][j] = filling[i][j]

\* sandwich returned for a bread that is not symmetric, on a proper subset
\* of the modes given out of order or not from mode 0.
C30_Witness ==
    /\ sret # <<>>
    /\ bread # <<>>
    /\ bread # transpose(bread)
    /\ Len(modes) < Len(filling) \div 2
    /\ modes[1] # 0
    /\ sret[1] # filling

\* ------------------------------ properties of the collection, continued
\* C26: a parameter whose hash_tensor raises TypeError is the only one
\* skipped: every hashable parameter an element references under a kind,
\* whose key no other parameter shares, is in the list collected for that
\* kind, whatever precedes it in its element or in earlier elements.
C26_OnlyUnhashableSkipped ==
    pc = "extracted" =>
        \A k \in Kinds, p \in Storage :
            (/\ Referenced(p, k)
             /\ ~RaisesTypeError(p)
             /\ \A q \in Storage \ {p} : RaisesTypeError(q) \/ hash_tensor(q) # hash_tensor(p))
            => Count(params[k], p) = 1

\* ------------------------------ properties of the State object, continued
\* The cutoffs a call was given, when it names one for every mode.
Explicit(arg) == arg # <<>> /\ \A i \in DOMAIN arg : arg[i] # <<>>
Given(arg) == [i \in DOMAIN arg |-> arg[i][1]]
\* The array the state holds is a ket exactly when the state is pure.
HeldAsItIs == is_gaussian \/ ((_fock[1].kind = "ket") <=> IsPure)

\* C22: every call fock_probabilities(cutoffs) returns the probabilities
\* for the cutoffs of that call, whatever calls came before it on the same
\* state.
C22_ProbabilitiesForCutoffs ==
    (read.op = "fock_probabilities" /\ Explicit(read.arg) /\ HeldAsItIs) =>
        /\ read.raised = None
        /\ read.result # <<>>
        /\ read.result[1].kind = "probs"
        /\ read.result[1].shape = Given(read.arg)

\* C23: the cutoffs and the shape of a state in Gaussian representation
\* are the autocutoffs of its current number means and standard
\* deviations, whatever was read from the state before.
C23_CutoffsInferred ==
    is_gaussian =>
        /\ Cutoffs = autocutoffs(cov, state_modes)
        /\ Shape = Doubled(autocutoffs(cov, state_modes), ~IsPure)

\* C24: ket(cutoffs) returns None when the state is mixed and otherwise a
\* ket, a tensor with one axis per mode, however the state was built.
C24_KetAxes ==
    (read.op = "ket" /\ read.raised = None) =>
        IF ~IsPure THEN read.result = <<>>
        ELSE /\ read.result # <<>>
             /\ read.result[1].kind = "ket"
             /\ Len(read.result[1].shape) = state_modes

\* The entry of a tensor at a multi-index: what was computed or given
\* there, or a padding zero.
Entry(t, idx) ==
    IF \A i \in DOMAIN idx : idx[i] < t.stored[i] THEN <<t.cov, idx>> ELSE <<>>
Within(idx, shape) == Len(idx) = Len(shape) /\ \A i \in DOMAIN idx : idx[i] < shape[i]

\* C29: for a state in Fock representation only, ket(cutoffs) of a pure
\* state has the shape cutoffs and dm(cutoffs) the shape cutoffs + cutoffs;
\* the entries at the indices the stored array has too are those of the
\* stored array and the others are zero.
C29_PaddedToCutoffs ==
    (~is_gaussian /\ read.op \in {"ket", "dm"} /\ (read.op = "ket" => IsPure)) =>
        /\ read.raised = None
        /\ read.result # <<>>
        /\ read.result[1].shape = Doubled(Resolved(read.arg), read.op = "dm")
        /\ read.result[1].kind = _fock[1].kind =>
              \A idx \in Indices(read.result[1].shape) :
                  Entry(read.result[1], idx) =
                      IF Within(idx, _fock[1].shape) THEN Entry(_fock[1], idx) ELSE <<>>

\* ------------------------------------------ properties of the purity
\* C27: is_mixed is the negation of is_pure whenever the two are read, for
\* a State and for a Gaussian, also after the eigenvalues changed
\* following a first read of purity.
C27_MixedIsNotPure ==
    pread # <<>> => (pread[1].is_mixed <=> ~pread[1].is_pure)

\* ------------------------------------------ properties of the projection
\* C25: a projection in Fock representation onto a state whose class
\* defines _preferred_projection is carried out by that method, not by the
\* default contraction.
C25_PreferredProjectionUsed ==
    (ppc = "returned" /\ ~gaussians /\ defines_pp) =>
        pret[1].path = "preferred_projection"

\* C28: a projection onto a state built without explicit modes never fails
\* because the modes are unset and leaves the modes of the other state that
\* are not among the default modes 0..num_modes-1, whether or not the modes
\* property was read before.
C28_UnsetModesAreDefault ==
    (ppc # "init" /\ ~explicit_modes) =>
        /\ praised = None
        /\ pret # <<>>
        /\ pret[1].remaining = remaining_modes(onum, range(pnum))

====
